---- MODULE Spec2Model ----
(***************************************************************************)
(* A model of gla::VertexArray (inc/GLA/vertexArray.h and its              *)
(* implementation file): the three pure helpers toGLenum,                  *)
(* validateTypeInterpretation and typeToBytes, the method                  *)
(* VertexArray::setAttributes with every native call it issues, and the    *)
(* move constructor and move assignment of the class.                      *)
(*                                                                         *)
(* A native call is logged as a record [op, args].  The OpenGL server is   *)
(* modelled by the set of enabled attribute indices of every vertex-array  *)
(* name and by the name that is currently bound.                           *)
(*                                                                         *)
(* GL_CALL and DEBUG_ONLY are macros of GLA/debug.h and bind() and the     *)
(* move operations of the base class are members of gla::Buffer in         *)
(* GLA/buffer.h: a native call is taken to raise no OpenGL error, the      *)
(* DEBUG_ONLY block to be compiled exactly when DEBUG_MODE is defined,     *)
(* bind() to bind the native name the object owns, and a move of the base  *)
(* to hand the name over and leave the source with none.  Values outside   *)
(* the two enumerations are not modelled.                                  *)
(***************************************************************************)
EXTENDS Integers, Sequences, FiniteSets, TLC

VARIABLES
    objects,        \* the VertexArray objects that have been constructed
    handle,         \* handle[o]: the native name object o owns (0: none, inert)
    enabled,        \* enabled[o]: the vector _enabledVertexAttribs of object o
    native,         \* native[h]: the attribute indices enabled on native name h
    bound,          \* the native name that is currently bound
    glLimit,        \* what glGetIntegerv(GL_MAX_VERTEX_ATTRIBS) writes (-1: it writes nothing)
    debugMode,      \* whether the build defines DEBUG_MODE
    last            \* the last operation: its arguments, its outcome, its native calls

vars == <<objects, handle, enabled, native, bound, glLimit, debugMode, last>>

----------------------------------------------------------------------------
(* Bounds of the model.                                                    *)

\* The largest platform limit GL_MAX_VERTEX_ATTRIBS a run may have.
MaxLimit == 2
\* The longest layout handed to setAttributes.
MaxLen == 2
\* The number of VertexArray objects a run may construct.
MaxObjects == 2

----------------------------------------------------------------------------
(* enum class VertexAttribType, enum class VertexAttribInterp              *)

VertexAttribType ==
    {"Byte", "UnsignedByte", "Short", "UnsignedShort", "Int", "UnsignedInt",
     "HalfFloat", "Float", "Double", "Fixed"}

VertexAttribInterp == {"Float", "Integer"}

toGLenum(type) ==
    CASE type = "Byte"          -> "GL_BYTE"
      [] type = "UnsignedByte"  -> "GL_UNSIGNED_BYTE"
      [] type = "Short"         -> "GL_SHORT"
      [] type = "UnsignedShort" -> "GL_UNSIGNED_SHORT"
      [] type = "Int"           -> "GL_INT"
      [] type = "UnsignedInt"   -> "GL_UNSIGNED_INT"
      [] type = "HalfFloat"     -> "GL_HALF_FLOAT"
      [] type = "Float"         -> "GL_FLOAT"
      [] type = "Double"        -> "GL_DOUBLE"
      [] type = "Fixed"         -> "GL_FIXED"

\* A faulty variant: the case of Fixed is missing.
validateTypeInterpretationNoFixed(type, interp) ==
    IF interp = "Integer"
      THEN CASE type = "HalfFloat" -> FALSE
             [] type = "Float"     -> FALSE
             [] type = "Double"    -> FALSE
             [] OTHER              -> TRUE
      ELSE TRUE

\* The returned bool; the error string is validateTypeInterpretationError.
validateTypeInterpretation(type, interp) ==
    IF interp = "Integer"
      THEN CASE type = "HalfFloat" -> FALSE
             [] type = "Float"     -> FALSE
             [] type = "Double"    -> FALSE
             [] type = "Fixed"     -> FALSE
             [] OTHER              -> TRUE
      ELSE TRUE

validateTypeInterpretationError(type, interp) ==
    IF validateTypeInterpretation(type, interp)
      THEN ""
      ELSE "Can't use type " \o type \o " with Integer interpretation!"

typeToBytes(type) ==
    CASE type = "Byte"          -> 1
      [] type = "UnsignedByte"  -> 1
      [] type = "Short"         -> 2
      [] type = "UnsignedShort" -> 2
      [] type = "Int"           -> 4
      [] type = "UnsignedInt"   -> 4
      [] type = "HalfFloat"     -> 2
      [] type = "Float"         -> 4
      [] type = "Double"        -> 8
      [] type = "Fixed"         -> 4

\* struct VertexAttribute
VertexAttribute(index, numComponents, type, interp, normalized, offset) ==
    [index |-> index, numComponents |-> numComponents, type |-> type,
     interp |-> interp, normalized |-> normalized, offset |-> offset]

----------------------------------------------------------------------------
(* Integer conversions.  An int compared with a size_t or an unsigned int  *)
(* is converted to the unsigned type first: a negative value becomes a     *)
(* value above every non-negative one, and two negative values keep their  *)
(* order.  x and y are the values before the conversion.                   *)

UnsignedLess(x, y) == IF (x < 0) = (y < 0) THEN x < y ELSE y < 0

UnsignedGreater(x, y) == UnsignedLess(y, x)

----------------------------------------------------------------------------
(* Native calls.                                                           *)

Call(op, args) == [op |-> op, args |-> args]

glGetIntegerv == Call("glGetIntegerv", <<"GL_MAX_VERTEX_ATTRIBS">>)
bind(h) == Call("bind", <<"name", h>>)
glDisableVertexAttribArray(i) == Call("glDisableVertexAttribArray", <<i>>)
glEnableVertexAttribArray(i) == Call("glEnableVertexAttribArray", <<i>>)
glVertexAttribIPointer(index, size, type, stride, offset) ==
    Call("glVertexAttribIPointer", <<index, size, type, stride, offset>>)
glVertexAttribPointer(index, size, type, normalized, stride, offset) ==
    Call("glVertexAttribPointer", <<index, size, type, normalized, stride, offset>>)

----------------------------------------------------------------------------
(* VertexArray::setAttributes.  An outcome is what one call leaves behind: *)
(* result is "ok" or the type of the exception thrown, what its message,   *)
(* stage the part of the method that threw, at the 1-based position of the *)
(* descriptor the per-descriptor loop threw at (0: not in that loop),      *)
(* calls the native calls issued in order, enabled the vector              *)
(* _enabledVertexAttribs at the end.                                       *)

Outcome(result, what, stage, at, calls, en) ==
    [result |-> result, what |-> what, stage |-> stage, at |-> at,
     calls |-> calls, enabled |-> en]

\* A faulty variant: a stride of 0 is accepted.
StrideInvalidNegativeOnly(stride) == stride < 0

\* if (stride <= 0)
StrideInvalid(stride) == stride <= 0

\* if (maxVertexAttribs < 0)
QueryFailed(maxVertexAttribs) == maxVertexAttribs < 0

\* A faulty variant: a layout with as many descriptors as the limit is rejected too.
CountExceedsLimitOrEqual(maxVertexAttribs, size) ==
    ~UnsignedLess(size, maxVertexAttribs)

\* if (maxVertexAttribs < attribs.size()): the int is converted to size_t
CountExceedsLimit(maxVertexAttribs, size) == UnsignedLess(maxVertexAttribs, size)

\* A faulty variant: only the first index is disabled.
DisableEnabledFirstOnly(en) ==
    [i \in 1..(IF Len(en) > 0 THEN 1 ELSE 0) |-> glDisableVertexAttribArray(en[i])]

\* for (unsigned int i : _enabledVertexAttribs) glDisableVertexAttribArray(i);
DisableEnabled(en) ==
    [i \in 1..Len(en) |-> glDisableVertexAttribArray(en[i])]

\* A faulty variant: the vector is not cleared.
ClearEnabledKeeps(en) == en

\* _enabledVertexAttribs.clear(); reserve() changes no element
ClearEnabled(en) == <<>>

\* size_t end = offset + typeToBytes(type) * numComponents, before the conversion
AttribEnd(a) == a.offset + typeToBytes(a.type) * a.numComponents

\* The inner loop of the DEBUG_ONLY block, from j on: "" or the message thrown.
RECURSIVE DebugOverlap(_, _, _)
DebugOverlap(attribs, i, j) ==
    IF j > Len(attribs) THEN ""
    ELSE IF i # j
            /\ attribs[i].offset <= attribs[j].offset
            /\ UnsignedGreater(AttribEnd(attribs[i]), attribs[j].offset)
      THEN "VertexAttributes " \o ToString(i - 1) \o " and " \o ToString(j - 1)
           \o " overlap!"
    ELSE DebugOverlap(attribs, i, j + 1)

\* The outer loop of the DEBUG_ONLY block, from i on: "" or the message thrown.
RECURSIVE DebugIntegrity(_, _, _)
DebugIntegrity(attribs, stride, i) ==
    IF i > Len(attribs) THEN ""
    ELSE IF UnsignedGreater(AttribEnd(attribs[i]), stride)
      THEN "Given VertexAttributes are bigger than the stride!"
    ELSE LET overlap == DebugOverlap(attribs, i, 1)
         IN  IF overlap # "" THEN overlap
             ELSE DebugIntegrity(attribs, stride, i + 1)

\* if (attrib.offset < 0)
OffsetInvalid(offset) == offset < 0

\* A faulty variant: the index that equals the limit is accepted.
IndexInvalidAboveOnly(index, maxVertexAttribs) ==
    UnsignedGreater(index, maxVertexAttribs)

\* if (attrib.index >= maxVertexAttribs): the int is converted to unsigned int
IndexInvalid(index, maxVertexAttribs) == ~UnsignedLess(index, maxVertexAttribs)

\* A faulty variant: four components are rejected.
NumComponentsInvalidFour(numComponents) ==
    numComponents >= 4 \/ numComponents <= 0

\* if (attrib.numComponents > 4 || attrib.numComponents <= 0)
NumComponentsInvalid(numComponents) ==
    numComponents > 4 \/ numComponents <= 0

\* The glVertexAttribIPointer or glVertexAttribPointer call of one descriptor.
DescribeAttrib(a, stride) ==
    IF a.interp = "Integer"
      THEN glVertexAttribIPointer(a.index, a.numComponents, toGLenum(a.type),
                                  stride, a.offset)
      ELSE glVertexAttribPointer(a.index, a.numComponents, toGLenum(a.type),
                                 a.normalized, stride, a.offset)

\* A faulty variant: the index is recorded only after the type check.
RECURSIVE AttribLoopRecordLate(_, _, _, _, _, _)
AttribLoopRecordLate(attribs, stride, maxVertexAttribs, k, calls, en) ==
    IF k > Len(attribs) THEN Outcome("ok", "", "done", 0, calls, en)
    ELSE LET a == attribs[k] IN
      IF OffsetInvalid(a.offset)
        THEN Outcome("invalid_argument", "Offset may not be less than 0!",
                     "offset", k, calls, en)
      ELSE IF IndexInvalid(a.index, maxVertexAttribs)
        THEN Outcome("invalid_argument",
                     "The current GPU does not support indexes over "
                        \o ToString(Len(attribs)) \o "!",
                     "index", k, calls, en)
      ELSE IF NumComponentsInvalid(a.numComponents)
        THEN Outcome("invalid_argument",
                     "numComponents of VertexAttribute may only be 1 to 4!",
                     "numComponents", k, calls, en)
      ELSE LET calls1 == Append(calls, glEnableVertexAttribArray(a.index)) IN
        IF ~validateTypeInterpretation(a.type, a.interp)
          THEN Outcome("invalid_argument",
                       validateTypeInterpretationError(a.type, a.interp),
                       "typeInterp", k, calls1, en)
        ELSE AttribLoopRecordLate(attribs, stride, maxVertexAttribs, k + 1,
                                  Append(calls1, DescribeAttrib(a, stride)),
                                  Append(en, a.index))

\* for (const VertexAttribute& attrib : attribs) { ... }, from descriptor k on
RECURSIVE AttribLoop(_, _, _, _, _, _)
AttribLoop(attribs, stride, maxVertexAttribs, k, calls, en) ==
    IF k > Len(attribs) THEN Outcome("ok", "", "done", 0, calls, en)
    ELSE LET a == attribs[k] IN
      IF OffsetInvalid(a.offset)
        THEN Outcome("invalid_argument", "Offset may not be less than 0!",
                     "offset", k, calls, en)
      ELSE IF IndexInvalid(a.index, maxVertexAttribs)
        THEN Outcome("invalid_argument",
                     "The current GPU does not support indexes over "
                        \o ToString(Len(attribs)) \o "!",
                     "index", k, calls, en)
      ELSE IF NumComponentsInvalid(a.numComponents)
        THEN Outcome("invalid_argument",
                     "numComponents of VertexAttribute may only be 1 to 4!",
                     "numComponents", k, calls, en)
      ELSE LET calls1 == Append(calls, glEnableVertexAttribArray(a.index))
               en1 == Append(en, a.index)
           IN
        IF ~validateTypeInterpretation(a.type, a.interp)
          THEN Outcome("invalid_argument",
                       validateTypeInterpretationError(a.type, a.interp),
                       "typeInterp", k, calls1, en1)
        ELSE AttribLoop(attribs, stride, maxVertexAttribs, k + 1,
                        Append(calls1, DescribeAttrib(a, stride)), en1)

\* The whole method, on an object that owns the native name h and whose
\* _enabledVertexAttribs is en; queried is what the limit query writes
\* (-1: nothing, maxVertexAttribs keeps its initial -1); debug: DEBUG_MODE.
setAttributes(en, h, attribs, stride, queried, debug) ==
    IF StrideInvalid(stride)
      THEN Outcome("invalid_argument", "stride must be greater than 0!",
                   "stride", 0, <<>>, en)
    ELSE LET maxVertexAttribs == IF queried < 0 THEN -1 ELSE queried
             calls0 == <<glGetIntegerv>>
         IN
      IF QueryFailed(maxVertexAttribs)
        THEN Outcome("runtime_error", "Could not query GL_MAX_VERTEX_ATTRIBS!",
                     "query", 0, calls0, en)
      ELSE IF CountExceedsLimit(maxVertexAttribs, Len(attribs))
        THEN Outcome("runtime_error",
                     "The current GPU does not support " \o ToString(Len(attribs))
                        \o " vertex attributes. Max allowed are: "
                        \o ToString(maxVertexAttribs)
                        \o ". At least 16 are guaranteed!",
                     "count", 0, calls0, en)
      ELSE LET calls1 == (calls0 \o <<bind(h)>>) \o DisableEnabled(en)
               integrity == IF debug THEN DebugIntegrity(attribs, stride, 1) ELSE ""
           IN
        IF integrity # ""
          THEN Outcome("invalid_argument", integrity, "debug", 0, calls1,
                       ClearEnabled(en))
        ELSE AttribLoop(attribs, stride, maxVertexAttribs, 1, calls1,
                        ClearEnabled(en))

----------------------------------------------------------------------------
(* The OpenGL server: what the native calls do to the enabled attribute    *)
(* indices of the bound vertex-array name.                                 *)

Server(nat, bnd) == [native |-> nat, bound |-> bnd]

NativeCall(server, call) ==
    CASE call.op = "bind" ->
           Server(server.native, call.args[2])
      [] call.op = "glEnableVertexAttribArray" ->
           Server([server.native EXCEPT ![server.bound] = @ \cup {call.args[1]}],
                  server.bound)
      [] call.op = "glDisableVertexAttribArray" ->
           Server([server.native EXCEPT ![server.bound] = @ \ {call.args[1]}],
                  server.bound)
      [] OTHER -> server

RECURSIVE NativeCalls(_, _, _)
NativeCalls(server, calls, n) ==
    IF n > Len(calls) THEN server
    ELSE NativeCalls(NativeCall(server, calls[n]), calls, n + 1)

----------------------------------------------------------------------------
(* The state machine.                                                      *)

Objects == 1..MaxObjects
Names == 0..MaxObjects

\* The record of an operation that is not setAttributes.
Operation(op, obj, src) ==
    [op |-> op, obj |-> obj, src |-> src, attribs |-> <<>>, stride |-> 0,
     before |-> <<>>, result |-> "ok", what |-> "", stage |-> "done", at |-> 0,
     calls |-> <<>>]

\* VertexArray() : Buffer(BufferType::Array) {}, for object 1; the others
\* are not constructed yet.
Init ==
    /\ objects = {1}
    /\ handle = [o \in Objects |-> IF o = 1 THEN 1 ELSE 0]
    /\ enabled = [o \in Objects |-> <<>>]
    /\ native = [h \in Names |-> {}]
    /\ bound = 0
    /\ glLimit \in {-1} \cup 1..MaxLimit
    /\ debugMode \in BOOLEAN
    /\ last = Operation("construct", 1, 1)

\* o.setAttributes(attribs, stride)
SetAttributes(o, attribs, stride) ==
    /\ o \in objects
    /\ \E out \in {setAttributes(enabled[o], handle[o], attribs, stride,
                                 glLimit, debugMode)} :
       \E server \in {NativeCalls(Server(native, bound), out.calls, 1)} :
           /\ enabled' = [enabled EXCEPT ![o] = out.enabled]
           /\ native' = server.native
           /\ bound' = server.bound
           /\ last' = [op |-> "setAttributes", obj |-> o, src |-> o,
                       attribs |-> attribs, stride |-> stride,
                       before |-> enabled[o], result |-> out.result,
                       what |-> out.what, stage |-> out.stage, at |-> out.at,
                       calls |-> out.calls]
    /\ UNCHANGED <<objects, handle, glLimit, debugMode>>

\* VertexArray o;
Construct(o) ==
    /\ o \notin objects
    /\ objects' = objects \cup {o}
    /\ handle' = [handle EXCEPT ![o] = o]
    /\ enabled' = [enabled EXCEPT ![o] = <<>>]
    /\ last' = Operation("construct", o, o)
    /\ UNCHANGED <<native, bound, glLimit, debugMode>>

\* Buffer(Buffer&&): the new object takes the name, the source is left with none.
BufferMove(dst, src) == [handle EXCEPT ![dst] = handle[src], ![src] = 0]

\* VertexArray dst(std::move(src)): only the Buffer base is moved;
\* _enabledVertexAttribs of dst is initialised to {} and src keeps its own.
MoveConstruct(dst, src) ==
    /\ dst \notin objects
    /\ src \in objects
    /\ objects' = objects \cup {dst}
    /\ handle' = BufferMove(dst, src)
    /\ enabled' = [enabled EXCEPT ![dst] = <<>>]
    /\ last' = Operation("moveConstruct", dst, src)
    /\ UNCHANGED <<native, bound, glLimit, debugMode>>

\* dst = std::move(src): only Buffer::operator= runs; _enabledVertexAttribs
\* of neither object is touched.
MoveAssign(dst, src) ==
    /\ dst \in objects
    /\ src \in objects
    /\ dst # src
    /\ handle' = BufferMove(dst, src)
    /\ last' = Operation("moveAssign", dst, src)
    /\ UNCHANGED <<objects, enabled, native, bound, glLimit, debugMode>>

----------------------------------------------------------------------------
(* Calls of the three free functions of the header.                        *)

\* validateTypeInterpretation(type, interp, error)
ValidateTypeInterpretation(type, interp) ==
    /\ last' = [op |-> "validateTypeInterpretation", type |-> type,
                interp |-> interp,
                value |-> validateTypeInterpretation(type, interp),
                error |-> validateTypeInterpretationError(type, interp)]
    /\ UNCHANGED <<objects, handle, enabled, native, bound, glLimit, debugMode>>

\* typeToBytes(type)
TypeToBytes(type) ==
    /\ last' = [op |-> "typeToBytes", type |-> type, value |-> typeToBytes(type)]
    /\ UNCHANGED <<objects, handle, enabled, native, bound, glLimit, debugMode>>

\* toGLenum(type)
ToGLenum(type) ==
    /\ last' = [op |-> "toGLenum", type |-> type, value |-> toGLenum(type)]
    /\ UNCHANGED <<objects, handle, enabled, native, bound, glLimit, debugMode>>

----------------------------------------------------------------------------
(* The arguments the callers of the model pass.                            *)

\* Four floats at offset 0: bytes [0, 16).
AttribPosition == VertexAttribute(0, 4, "Float", "Float", FALSE, 0)
\* Two shorts read as integers at offset 16: bytes [16, 20).
AttribJoints == VertexAttribute(1, 2, "Short", "Integer", FALSE, 16)
\* Four normalized unsigned bytes at offset 12: bytes [12, 16), inside AttribPosition.
AttribColor == VertexAttribute(1, 4, "UnsignedByte", "Float", TRUE, 12)
\* Four doubles at offset 0: bytes [0, 32).
AttribWide == VertexAttribute(0, 4, "Double", "Float", FALSE, 0)
\* A float read as an integer: the type and the interpretation do not fit.
AttribFloatAsInteger == VertexAttribute(0, 1, "Float", "Integer", FALSE, 20)
\* A byte at a negative offset: it ends at byte -1.
AttribNegativeOffset == VertexAttribute(1, 1, "Byte", "Float", TRUE, -2)
\* Five components.
AttribFiveComponents == VertexAttribute(0, 5, "UnsignedByte", "Float", TRUE, 24)
\* No component.
AttribNoComponent == VertexAttribute(1, 0, "Int", "Float", FALSE, 32)

\* Two descriptors that pass every check and one descriptor for each check
\* of the per-descriptor loop.
Attribs ==
    {AttribPosition, AttribJoints, AttribFloatAsInteger, AttribNegativeOffset,
     AttribFiveComponents, AttribNoComponent}

\* Descriptors that pass every check of the per-descriptor loop and differ
\* in the bytes they cover.
LayoutAttribs == {AttribPosition, AttribJoints, AttribColor, AttribWide}

Strides == {0, 32}

LayoutStrides == {16, 32}

\* The layouts of at most MaxLen descriptors drawn from D.
Layouts(D) == UNION {[1..n -> D] : n \in 0..MaxLen}

\* Those that name no descriptor twice.
DistinctLayouts(D) ==
    {attribs \in Layouts(D) :
        \A i, j \in 1..Len(attribs) : attribs[i] = attribs[j] => i = j}

----------------------------------------------------------------------------
(* The specifications.                                                     *)

\* One VertexArray, configured again and again: layouts with valid and
\* invalid descriptors, valid and invalid strides.
Next ==
    \E attribs \in DistinctLayouts(Attribs), stride \in Strides :
        SetAttributes(1, attribs, stride)

Spec == Init /\ [][Next]_vars

\* One VertexArray, configured again and again: layouts of descriptors that
\* are valid one by one, with and without overlaps, within and beyond the stride.
NextLayout ==
    \E attribs \in Layouts(LayoutAttribs), stride \in LayoutStrides :
        SetAttributes(1, attribs, stride)

SpecLayout == Init /\ [][NextLayout]_vars

\* Several VertexArrays, constructed, moved and configured.
NextMove ==
    \/ \E o \in Objects : Construct(o)
    \/ \E dst, src \in Objects : MoveConstruct(dst, src)
    \/ \E dst, src \in Objects : MoveAssign(dst, src)
    \/ \E o \in Objects, attribs \in DistinctLayouts({AttribPosition, AttribJoints}) :
          SetAttributes(o, attribs, 32)

SpecMove == Init /\ [][NextMove]_vars

\* The free functions, called with every type and interpretation.
NextHelpers ==
    \/ \E type \in VertexAttribType, interp \in VertexAttribInterp :
          ValidateTypeInterpretation(type, interp)
    \/ \E type \in VertexAttribType : TypeToBytes(type)
    \/ \E type \in VertexAttribType : ToGLenum(type)

SpecHelpers == Init /\ [][NextHelpers]_vars

----------------------------------------------------------------------------
(* What the claims speak of.                                               *)

Range(seq) == {seq[k] : k \in 1..Len(seq)}

\* The attribute indices a layout names.
IndexSet(attribs) == {attribs[k].index : k \in 1..Len(attribs)}

IsSetAttributes == last.op = "setAttributes"

IsDisable(call, i) == call.op = "glDisableVertexAttribArray" /\ call.args[1] = i
IsEnable(call, i) == call.op = "glEnableVertexAttribArray" /\ call.args[1] = i
IsDescribe(call, a) ==
    /\ call.op = (IF a.interp = "Integer" THEN "glVertexAttribIPointer"
                                          ELSE "glVertexAttribPointer")
    /\ call.args[1] = a.index

Positions(calls, ops) == {p \in 1..Len(calls) : calls[p].op \in ops}

\* The types that cannot be read as integers.
NotIntegerTypes == {"HalfFloat", "Float", "Double", "Fixed"}

Compatible(type, interp) == ~(interp = "Integer" /\ type \in NotIntegerTypes)

\* The bytes [offset, offset + size) of a descriptor, as integers.
Bytes(a) == a.offset .. (a.offset + typeToBytes(a.type) * a.numComponents - 1)

WithinStride(attribs, stride) ==
    \A k \in 1..Len(attribs) :
        attribs[k].offset + typeToBytes(attribs[k].type) * attribs[k].numComponents
            <= stride

NoOverlap(attribs) ==
    \A i, j \in 1..Len(attribs) :
        i # j => Bytes(attribs[i]) \cap Bytes(attribs[j]) = {}

----------------------------------------------------------------------------
(* The claims.                                                             *)

\* C1: when setAttributes succeeds twice in a row on the same VertexArray,
\* the second call issues a glDisableVertexAttribArray for every index of
\* the first call's layout before it issues any glEnableVertexAttribArray,
\* and afterwards the enabled-index set is exactly the set of indices of
\* the second call's layout.
C1_SecondCallReplacesFirst ==
    [][ ( /\ last.op = "setAttributes" /\ last.result = "ok"
          /\ last'.op = "setAttributes" /\ last'.result = "ok"
          /\ last'.obj = last.obj )
        => /\ \A i \in IndexSet(last.attribs) :
                \E p \in 1..Len(last'.calls) :
                    /\ IsDisable(last'.calls[p], i)
                    /\ \A q \in Positions(last'.calls, {"glEnableVertexAttribArray"}) :
                          p < q
           /\ Range(enabled'[last'.obj]) = IndexSet(last'.attribs)
      ]_vars

\* A second call that found the indices 0 and 1 enabled and enabled index 1 alone.
C1_Witness ==
    /\ IsSetAttributes /\ last.result = "ok"
    /\ Range(last.before) = {0, 1}
    /\ last.attribs = <<AttribJoints>>
    /\ Range(enabled[last.obj]) = {1}

\* The layouts and strides C2 calls valid.
C2_Valid ==
    /\ IsSetAttributes
    /\ last.stride > 0
    /\ glLimit >= 0
    /\ Len(last.attribs) <= glLimit
    /\ \A k \in 1..Len(last.attribs) :
          LET a == last.attribs[k]
          IN  /\ a.offset >= 0
              /\ a.index < glLimit
              /\ a.numComponents \in 1..4
              /\ Compatible(a.type, a.interp)

\* C2 as stated: for every valid layout and stride setAttributes raises no
\* failure and the enabled-index set afterwards is exactly the set of
\* indices of the layout.
C2_Original ==
    C2_Valid => /\ last.result = "ok"
                /\ Range(enabled[last.obj]) = IndexSet(last.attribs)

\* C2 as amended: the same, for the valid layouts and strides that, when the
\* build defines DEBUG_MODE, also keep every descriptor within the stride
\* and no two descriptors on the same byte.
C2_ValidLayoutSucceeds ==
    ( /\ C2_Valid
      /\ debugMode => /\ WithinStride(last.attribs, last.stride)
                      /\ NoOverlap(last.attribs) )
    => /\ last.result = "ok"
       /\ Range(enabled[last.obj]) = IndexSet(last.attribs)

\* A valid layout of two descriptors accepted by the debug build.
C2_Witness ==
    /\ C2_Valid /\ debugMode
    /\ Len(last.attribs) = 2
    /\ last.result = "ok"
    /\ Range(enabled[last.obj]) = {0, 1}

\* C3: a move construction or move assignment gives the destination the
\* native handle and the enabled-index set of the source and leaves the
\* source without a handle.
C3_MoveTransfersEnabled ==
    [][ last'.op \in {"moveConstruct", "moveAssign"}
        => /\ handle'[last'.obj] = handle[last'.src]
           /\ handle'[last'.src] = 0
           /\ enabled'[last'.obj] = enabled[last'.src]
      ]_vars

\* The vector _enabledVertexAttribs C4 expects after a failure at descriptor k.
C4_Expected ==
    LET a == last.attribs
        k == last.at
    IN  [j \in 1..(IF last.stage = "typeInterp" THEN k ELSE k - 1) |-> a[j].index]

\* C4: when setAttributes fails at descriptor k of the per-descriptor loop,
\* every index of the previous configuration has been disabled, every
\* descriptor before k has been enabled and described, in order, nothing
\* after k has been enabled, and the enabled-index set holds the indices of
\* the descriptors before k, plus that of descriptor k exactly when the
\* type and interpretation check failed; the native object has the same
\* indices enabled.
C4_NoRollback ==
    (IsSetAttributes /\ last.at > 0) =>
        LET a == last.attribs
            k == last.at
            calls == last.calls
            pre == 2 + Len(last.before)
            typeFailed == last.stage = "typeInterp"
        IN  /\ last.result = "invalid_argument"
            /\ k <= Len(a)
            /\ Len(calls) = pre + 2 * (k - 1) + (IF typeFailed THEN 1 ELSE 0)
            /\ calls[1].op = "glGetIntegerv"
            /\ calls[2].op = "bind"
            /\ \A p \in 1..Len(last.before) : IsDisable(calls[2 + p], last.before[p])
            /\ \A j \in 1..(k - 1) :
                  /\ IsEnable(calls[pre + 2 * j - 1], a[j].index)
                  /\ IsDescribe(calls[pre + 2 * j], a[j])
            /\ typeFailed => IsEnable(calls[Len(calls)], a[k].index)
            /\ typeFailed => ~Compatible(a[k].type, a[k].interp)
            /\ enabled[last.obj] = C4_Expected
            /\ native[handle[last.obj]] = Range(C4_Expected)

\* The second descriptor failed the type and interpretation check on an
\* object that had indices enabled.
C4_Witness ==
    /\ IsSetAttributes
    /\ last.at = 2 /\ last.stage = "typeInterp"
    /\ Len(last.before) = 2
    /\ last.attribs[1] = AttribJoints
    /\ enabled[last.obj] = <<1, 0>>

\* C5: setAttributes with stride <= 0 fails with invalid-argument, issues
\* no native call and leaves the enabled-index set as it was.
C5_BadStrideChangesNothing ==
    (IsSetAttributes /\ last.stride <= 0) =>
        /\ last.result = "invalid_argument"
        /\ last.calls = <<>>
        /\ enabled[last.obj] = last.before

\* A call with stride 0 and a layout on an object that has indices enabled.
C5_Witness ==
    /\ IsSetAttributes /\ last.stride = 0
    /\ Len(last.attribs) > 0
    /\ Len(enabled[last.obj]) = 2

\* C6: with stride > 0, a limit query that yields a negative value or a
\* layout longer than the limit makes setAttributes fail with a runtime
\* failure after the query alone, the enabled-index set unchanged; a layout
\* as long as the limit is not rejected by this check.
C6_LimitCheck ==
    (IsSetAttributes /\ last.stride > 0) =>
        /\ (glLimit < 0 \/ Len(last.attribs) > glLimit)
              => /\ last.result = "runtime_error"
                 /\ Len(last.calls) = 1
                 /\ last.calls[1].op = "glGetIntegerv"
                 /\ enabled[last.obj] = last.before
        /\ (glLimit >= 0 /\ Len(last.attribs) <= glLimit)
              => /\ last.result # "runtime_error"
                 /\ last.stage \notin {"query", "count"}
                 /\ Len(last.calls) >= 2
                 /\ last.calls[2].op = "bind"

\* A layout of two descriptors rejected under a limit of 1 on an object
\* that has an index enabled.
C6_Witness ==
    /\ IsSetAttributes /\ last.stage = "count"
    /\ glLimit = 1
    /\ Len(last.attribs) = 2
    /\ Len(enabled[last.obj]) = 1

\* A descriptor the per-descriptor loop rejects before it enables it.
C7_Rejected(a) ==
    a.offset < 0 \/ a.index >= glLimit \/ a.numComponents \notin 1..4

\* The position of the first such descriptor of the last layout.
C7_First ==
    CHOOSE k \in 1..Len(last.attribs) :
        /\ C7_Rejected(last.attribs[k])
        /\ \A j \in 1..(k - 1) : ~C7_Rejected(last.attribs[j])

C7_Applies ==
    /\ IsSetAttributes
    /\ last.stride > 0
    /\ glLimit >= 0
    /\ Len(last.attribs) <= glLimit
    /\ \E k \in 1..Len(last.attribs) : C7_Rejected(last.attribs[k])

\* C7: with stride > 0 and a layout within the limit, a descriptor with a
\* negative offset, an index at or above the limit, or a component count
\* outside 1..4 makes setAttributes fail with invalid-argument, and neither
\* the first such descriptor nor any after it is enabled or described.
C7_BadDescriptorRejected ==
    C7_Applies =>
        /\ last.result = "invalid_argument"
        /\ Cardinality(Positions(last.calls, {"glEnableVertexAttribArray"}))
              <= C7_First - 1
        /\ Cardinality(Positions(last.calls,
                  {"glVertexAttribPointer", "glVertexAttribIPointer"}))
              <= C7_First - 1

\* The second descriptor has five components and the first was enabled and described.
C7_Witness ==
    /\ C7_Applies
    /\ C7_First = 2
    /\ last.attribs[2] = AttribFiveComponents
    /\ last.stage = "numComponents"
    /\ Cardinality(Positions(last.calls, {"glEnableVertexAttribArray"})) = 1

\* C8: validateTypeInterpretation(type, Integer) is false exactly for
\* HalfFloat, Float, Double and Fixed, and validateTypeInterpretation(type,
\* Float) is true for every type.
C8_TypeInterpretation ==
    last.op = "validateTypeInterpretation" =>
        /\ last.interp = "Integer" =>
              (last.value = FALSE <=> last.type \in NotIntegerTypes)
        /\ last.interp = "Float" => last.value = TRUE

\* Fixed read as an integer was refused.
C8_Witness ==
    /\ last.op = "validateTypeInterpretation"
    /\ last.type = "Fixed" /\ last.interp = "Integer"
    /\ last.value = FALSE

\* C9: in the debug build the integrity pass fails exactly when some
\* descriptor ends beyond the stride or two distinct descriptors share a byte.
C9_IntegrityExact ==
    (IsSetAttributes /\ debugMode /\ last.stage \notin {"stride", "query", "count"})
    => (last.stage = "debug"
          <=> (~WithinStride(last.attribs, last.stride) \/ ~NoOverlap(last.attribs)))

\* C10: the vector _enabledVertexAttribs of a VertexArray holds exactly the
\* attribute indices that are enabled on its native object.
C10_EnabledMatchesNative ==
    \A o \in objects : Range(enabled[o]) = native[handle[o]]

\* A call that failed after it enabled an index, on an object that had two
\* indices enabled.
C10_Witness ==
    /\ IsSetAttributes
    /\ last.stage = "typeInterp"
    /\ Len(last.before) = 2
    /\ native[handle[last.obj]] = {0}

====
